---------------------------- MODULE Spec2Model ----------------------------
(***************************************************************************)
(* A model of the generic HTTP router (src/src/lib.rs): Router::new builds *)
(* one matchit tree per HTTP method from the configured endpoints,         *)
(* Router::register stores a handler under a controller name, and          *)
(* Router::route resolves a request to 404 / 405 / 501 or to a handler.    *)
(*                                                                         *)
(* A path is the sequence of its '/'-separated segments after the leading  *)
(* slash: "/users/42" is <<"users", "42">>, "/" is <<"">> and "/users/" is *)
(* <<"users", "">>.  A route pattern is a sequence of segments, each a     *)
(* literal or a named parameter (":id").  Strings that the router builds   *)
(* (the Allow value, the 501 body) are sequences of their pieces.          *)
(*                                                                         *)
(* The matchit tree is modelled by the routes inserted into it, in order;  *)
(* a node of the tree is the set of routes that share the edges walked so  *)
(* far.  The behaviour modelled is that of the matchit releases that use   *)
(* the ":name" syntax the repository documents (src/src/request.rs:17):    *)
(* a parameter takes one whole non-empty segment, a literal edge is tried  *)
(* before the parameter edge with backtracking, one parameter name per     *)
(* node.  Catch-all ("*rest") patterns and the reading of the JSON file    *)
(* (RouterError::Io, RouterError::Json) are outside the model.             *)
(***************************************************************************)
EXTENDS Naturals, Sequences, FiniteSets

\* ------------------------------------------------------------------ bounds
MaxEntries == 2       \* endpoints in a configuration, with the router in use
MaxBuildEntries == 3  \* endpoints in a configuration, for Router::new alone
MaxSegs == 2          \* segments in a pattern or a request path

\* ------------------------------------------------------------- input sets
Methods == {"GET", "POST"}
Controllers == {"list", "get"}
HandlerIds == {"h1", "h2"}
Literals == {"users"}
ParamNames == {"id", "name"}
PathSegs == {"users", "me", ""}
ALLOW == "allow"
None == "none"

Lit(s) == [kind |-> "lit", text |-> s]
Param(n) == [kind |-> "param", text |-> n]
PatternSegs == {Lit(s) : s \in Literals} \cup {Param(n) : n \in ParamNames}

SeqsUpTo(S, n) == UNION {[1..k -> S] : k \in 1..n}
Patterns == SeqsUpTo(PatternSegs, MaxSegs)
Paths == SeqsUpTo(PathSegs, MaxSegs)

\* config::Endpoint (the description is read and dropped by Router::new)
Endpoint == [method : Methods, path : Patterns, controller : Controllers]
ConfigsOf(endpoints, n) == UNION {[1..k -> endpoints] : k \in 0..n}

Range(f) == {f[i] : i \in DOMAIN f}
EmptyMap == [x \in {} |-> None]
Put(f, k, v) == [x \in (DOMAIN f) \cup {k} |-> IF x = k THEN v ELSE f[x]]

\* =================================================================== matchit
\* Two segments lead to the same edge of the tree: the same literal, or both
\* a parameter (a node has one parameter child, whatever its name).
SameEdge(s, t) ==
    /\ s.kind = t.kind
    /\ s.kind = "lit" => s.text = t.text

\* The routes of the tree in the node reached by the first k segments of pat.
Node(tree, pat, k) ==
    {i \in DOMAIN tree :
        /\ Len(tree[i].path) >= k
        /\ \A j \in 1..k : SameEdge(tree[i].path[j], pat[j])}

\* The parameter child reached by pat's first k segments holds another name.
NameClash(tree, pat, k) ==
    /\ pat[k].kind = "param"
    /\ \E i \in Node(tree, pat, k) : tree[i].path[k].text # pat[k].text

\* The node a value is already stored in for pat.
Terminal(tree, pat) ==
    {i \in Node(tree, pat, Len(pat)) : Len(tree[i].path) = Len(pat)}

ClashAt(tree, pat) == {k \in 1..Len(pat) : NameClash(tree, pat, k)}
FirstClash(tree, pat) ==
    CHOOSE k \in ClashAt(tree, pat) : \A l \in ClashAt(tree, pat) : k <= l

\* An insert that replaces the value of a route that is already there.
InsertOverwriting(tree, pat, value) ==
    IF ClashAt(tree, pat) # {}
    THEN [ok |-> FALSE, tree |-> tree,
          withs |-> {tree[i].path : i \in Node(tree, pat, FirstClash(tree, pat))}]
    ELSE IF Terminal(tree, pat) # {}
    THEN [ok |-> TRUE,
          tree |-> [i \in DOMAIN tree |->
                      IF i \in Terminal(tree, pat)
                      THEN [path |-> pat, value |-> value] ELSE tree[i]],
          withs |-> {}]
    ELSE [ok |-> TRUE, tree |-> Append(tree, [path |-> pat, value |-> value]),
          withs |-> {}]

\* matchit::Router::insert: Err(InsertError::Conflict { with }) or Ok.  "withs"
\* are the routes under the node where the insertion stopped; the error names
\* one of them.
Insert(tree, pat, value) ==
    IF ClashAt(tree, pat) # {}
    THEN [ok |-> FALSE, tree |-> tree,
          withs |-> {tree[i].path : i \in Node(tree, pat, FirstClash(tree, pat))}]
    ELSE IF Terminal(tree, pat) # {}
    THEN [ok |-> FALSE, tree |-> tree,
          withs |-> {tree[i].path : i \in Node(tree, pat, Len(pat))}]
    ELSE [ok |-> TRUE, tree |-> Append(tree, [path |-> pat, value |-> value]),
          withs |-> {}]

NoMatch == [ok |-> FALSE, value |-> None, params |-> <<>>]

\* A walk that tries the parameter child before the literal child.
RECURSIVE WalkParamFirst(_, _, _, _, _)
WalkParamFirst(tree, node, path, i, params) ==
    IF i > Len(path)
    THEN LET here == {r \in node : Len(tree[r].path) = Len(path)}
         IN  IF here = {} THEN NoMatch
             ELSE [ok |-> TRUE, value |-> tree[CHOOSE r \in here : TRUE].value,
                   params |-> params]
    ELSE LET deeper == {r \in node : Len(tree[r].path) >= i}
             lit == {r \in deeper : tree[r].path[i] = Lit(path[i])}
             par == {r \in deeper : tree[r].path[i].kind = "param"}
             viaPar == IF par = {} \/ path[i] = "" THEN NoMatch
                       ELSE WalkParamFirst(tree, par, path, i + 1,
                              Append(params,
                                <<tree[CHOOSE r \in par : TRUE].path[i].text, path[i]>>))
         IN  IF viaPar.ok THEN viaPar
             ELSE IF lit = {} THEN NoMatch
             ELSE WalkParamFirst(tree, lit, path, i + 1, params)

\* The walk of matchit::Router::at from segment i of path, in the node that
\* holds the routes "node", with the parameters bound so far: the literal
\* child first, then (backtracking) the parameter child, which takes one
\* non-empty segment.
RECURSIVE Walk(_, _, _, _, _)
Walk(tree, node, path, i, params) ==
    IF i > Len(path)
    THEN LET here == {r \in node : Len(tree[r].path) = Len(path)}
         IN  IF here = {} THEN NoMatch
             ELSE [ok |-> TRUE, value |-> tree[CHOOSE r \in here : TRUE].value,
                   params |-> params]
    ELSE LET deeper == {r \in node : Len(tree[r].path) >= i}
             lit == {r \in deeper : tree[r].path[i] = Lit(path[i])}
             par == {r \in deeper : tree[r].path[i].kind = "param"}
             viaLit == IF lit = {} THEN NoMatch
                       ELSE Walk(tree, lit, path, i + 1, params)
         IN  IF viaLit.ok THEN viaLit
             ELSE IF par = {} \/ path[i] = "" THEN NoMatch
             ELSE Walk(tree, par, path, i + 1,
                       Append(params,
                              <<tree[CHOOSE r \in par : TRUE].path[i].text, path[i]>>))

\* matchit::Router::at
At(tree, path) == Walk(tree, DOMAIN tree, path, 1, <<>>)

\* ============================================================== Router::new
\* A loop that goes on after a failed insert and reports the last failure.
RECURSIVE PopulateAll(_, _, _, _, _)
PopulateAll(config, i, trs, at, withs) ==
    IF i > Len(config)
    THEN [ok |-> at = 0, trees |-> IF at = 0 THEN trs ELSE EmptyMap,
          at |-> at, withs |-> withs]
    ELSE LET e == config[i]
             tree == IF e.method \in DOMAIN trs THEN trs[e.method] ELSE <<>>
             ins == Insert(tree, e.path, e.controller)
         IN  IF ins.ok
             THEN PopulateAll(config, i + 1, Put(trs, e.method, ins.tree), at, withs)
             ELSE PopulateAll(config, i + 1, trs, i, ins.withs)
PopulateLastError(config, i, trs) == PopulateAll(config, i, trs, 0, {})

\* The loop over config.endpoints from entry i on: the first failing insert
\* ends it (the ? operator), and no Router is built.
RECURSIVE Populate(_, _, _)
Populate(config, i, trs) ==
    IF i > Len(config) THEN [ok |-> TRUE, trees |-> trs, at |-> 0, withs |-> {}]
    ELSE LET e == config[i]
             tree == IF e.method \in DOMAIN trs THEN trs[e.method] ELSE <<>>
             ins == Insert(tree, e.path, e.controller)
         IN  IF ins.ok THEN Populate(config, i + 1, Put(trs, e.method, ins.tree))
             ELSE [ok |-> FALSE, trees |-> EmptyMap, at |-> i, withs |-> ins.withs]

New(config) == Populate(config, 1, EmptyMap)

\* The orders in which a HashMap with these keys may hand them out.
IterationOrders(keys) ==
    {s \in [1..Cardinality(keys) -> keys] : Range(s) = keys}


\* ============================================================= HttpResponse
NOT_FOUND == 404
METHOD_NOT_ALLOWED == 405
NOT_IMPLEMENTED == 501
OK == 200
BAD_REQUEST == 400

\* HttpResponse::new
NewResponse(status, body) == [status |-> status, headers |-> EmptyMap, body |-> body]

\* HttpResponse::with_headers
WithHeaders(status, headers, body) ==
    [status |-> status, headers |-> headers, body |-> body]

\* HeaderValue::from_str accepts visible ASCII only.
ValidHeaderValue(value) == \A i \in DOMAIN value : value[i] \notin {"\n", "\r"}

\* HttpResponse::add_header: the header is set (replacing its values) when the
\* value is a valid header value, and silently dropped otherwise.
AddHeader(res, name, value) ==
    IF ValidHeaderValue(value)
    THEN [res EXCEPT !.headers = Put(res.headers, name, <<value>>)]
    ELSE res

\* HeaderMap::extend: every name of src replaces that name in dst.
Extend(dst, src) ==
    [n \in (DOMAIN dst) \cup (DOMAIN src) |->
        IF n \in DOMAIN src THEN src[n] ELSE dst[n]]

\* From<HttpResponse> for Response<Vec<u8>>: a builder with the status, the
\* headers extended onto the builder's empty map, then the body.
IntoResponseNoHeaders(res) ==
    [status |-> res.status, headers |-> EmptyMap, body |-> res.body]
IntoResponse(res) ==
    [status |-> res.status, headers |-> Extend(EmptyMap, res.headers),
     body |-> res.body]

\* [&str]::join
RECURSIVE Join(_, _)
Join(strs, sep) ==
    IF Len(strs) = 0 THEN <<>>
    ELSE IF Len(strs) = 1 THEN <<strs[1]>>
    ELSE <<strs[1], sep>> \o Join(Tail(strs), sep)

\* Iterator::collect into a HashMap: a later pair replaces an earlier one
\* with the same key.
RECURSIVE Collect(_)
Collect(pairs) ==
    IF Len(pairs) = 0 THEN EmptyMap
    ELSE LET n == Len(pairs)
         IN  Put(Collect(SubSeq(pairs, 1, n - 1)), pairs[n][1], pairs[n][2])

\* ================================================================= handlers
\* Two implementations of HttpHandler::handle.  h1 is the example's
\* GetUserByIdHandler; h2 answers 404 with two values of one header and no body.
Handle(h, req) ==
    IF h = "h1"
    THEN IF "id" \in DOMAIN req.params
         THEN NewResponse(OK, <<"Fetching user with id: ", req.params["id"]>>)
         ELSE NewResponse(BAD_REQUEST, <<"User ID missing">>)
    ELSE WithHeaders(NOT_FOUND, [vary |-> <<"accept", "origin">>], <<>>)

\* ================================================================= requests
\* What the transport hands to route: any method and path; a POST carries a
\* body and a content-type header.
ReqMethods == Methods \cup {"DELETE"}
RequestOf(method, path) ==
    [method |-> method, uri |-> path,
     headers |-> IF method = "POST"
                 THEN [host |-> <<"example.org">>, ctype |-> <<"application/json">>]
                 ELSE [host |-> <<"example.org">>],
     body |-> IF method = "POST" THEN <<"payload">> ELSE <<>>]
RequestsOf(methods, paths) == {RequestOf(m, p) : m \in methods, p \in paths}

\* =================================================================== Router
Workers == {"w1", "w2"}

VARIABLES
    config,      \* the endpoints Router::new was given
    result,      \* "ok": Router::new returned a Router; "err": a RouterError
    err,         \* the RouterError, None when result = "ok"
    failedAt,    \* the entry whose insert failed, 0 when result = "ok"
    trees,       \* Router.trees: method -> tree
    treeOrder,   \* the order in which this trees map hands out its keys
    handlers,    \* Router.handlers: controller name -> handler, None when absent
    registered,  \* per controller name, the handler of the latest register call
    calls        \* per worker, its route call and what it returned

vars == <<config, result, err, failedAt, trees, treeOrder, handlers, registered, calls>>

NoCall == [op |-> "idle", req |-> None, resp |-> None, invoked |-> <<>>]

NoHandlers == [c \in Controllers |-> None]

\* Router::new: Ok(Router { trees, handlers: HashMap::new() }) or the error
\* of the first insert that failed.
InitOver(configs) ==
    \E cfg \in configs :
        LET built == New(cfg)
        IN  /\ config = cfg
            /\ handlers = NoHandlers
            /\ registered = NoHandlers
            /\ calls = [w \in Workers |-> NoCall]
            /\ failedAt = built.at
            /\ trees = built.trees
            /\ IF built.ok
               THEN /\ result = "ok"
                    /\ err = None
                    /\ treeOrder \in IterationOrders(DOMAIN built.trees)
               ELSE /\ result = "err"
                    /\ treeOrder = <<>>
                    /\ \E w \in built.withs :
                          err = [kind |-> "MatchIt", with |-> w]

\* HashMap::insert on Router.handlers
InsertKeepFirst(hs, name, handler) ==
    IF hs[name] = None THEN [hs EXCEPT ![name] = handler] ELSE hs
InsertHandler(hs, name, handler) == [hs EXCEPT ![name] = handler]

\* Router::register.  It takes &mut self: no route call is in progress.
Register(name, handler) ==
    /\ result = "ok"
    /\ \A w \in Workers : calls[w].op = "idle"
    /\ handlers' = InsertHandler(handlers, name, handler)
    /\ registered' = [registered EXCEPT ![name] = handler]
    /\ UNCHANGED <<config, result, err, failedAt, trees, treeOrder, calls>>

\* Iterating over &self.trees: the map is not changed after Router::new, so
\* every iteration hands out the keys in the same order.
IterReversing(order) ==
    IF \E w \in Workers : calls[w].op = "route"
    THEN [i \in DOMAIN order |-> order[Len(order) + 1 - i]]
    ELSE order
Iter(order) == order

\* The methods whose tree matches the path, in iteration order.
AllowedMethods(trs, order, path) ==
    LET Matches(m) == At(trs[m], path).ok
    IN  SelectSeq(Iter(order), Matches)

\* The test for 405: the path is known to some tree but not to the method's.
NoTreeForMethod(allowed, method) ==
    /\ allowed # <<>>
    /\ method \notin DOMAIN trees
NotAmongAllowed(allowed, method) == method \notin Range(allowed)
MethodNotAllowed(allowed, method) ==
    /\ allowed # <<>>
    /\ method \notin Range(allowed)

\* The body of the 501 response.
GenericMissingBody(controller_name) == <<"Error: Handler is not implemented.">>
MissingHandlerBody(controller_name) ==
    <<"Error: Handler for '", controller_name, "' is not implemented.">>

\* The HttpRequest handed to the handler.
CustomRequestNoParams(req, params) ==
    [uri |-> req.uri, method |-> req.method, headers |-> req.headers,
     params |-> EmptyMap, body |-> req.body]
CustomRequest(req, params) ==
    [uri |-> req.uri, method |-> req.method, headers |-> req.headers,
     params |-> Collect(params), body |-> req.body]

\* Router::route: the response, and the handler invocations made on the way.
Dispatch(trs, order, hs, req) ==
    LET path == req.uri
        method == req.method
        allowed_methods == AllowedMethods(trs, order, path)
    IN  IF MethodNotAllowed(allowed_methods, method)
        THEN [resp |-> IntoResponse(AddHeader(NewResponse(METHOD_NOT_ALLOWED, <<>>),
                                              ALLOW, Join(allowed_methods, ", "))),
              invoked |-> <<>>]
        ELSE IF method \notin DOMAIN trs
        THEN [resp |-> IntoResponse(NewResponse(NOT_FOUND, <<>>)), invoked |-> <<>>]
        ELSE LET match_result == At(trs[method], path)
                 controller_name == match_result.value
             IN  IF ~match_result.ok
                 THEN [resp |-> IntoResponse(NewResponse(NOT_FOUND, <<>>)),
                       invoked |-> <<>>]
                 ELSE IF hs[controller_name] = None
                 THEN [resp |-> IntoResponse(NewResponse(NOT_IMPLEMENTED,
                                         MissingHandlerBody(controller_name))),
                       invoked |-> <<>>]
                 ELSE LET custom_req == CustomRequest(req, match_result.params)
                          handler == hs[controller_name]
                      IN  [resp |-> IntoResponse(Handle(handler, custom_req)),
                           invoked |-> <<[handler |-> handler, req |-> custom_req]>>]

\* Worker w calls Router::route and holds the response.
Route(w, req) ==
    /\ result = "ok"
    /\ calls[w].op = "idle"
    /\ LET out == Dispatch(trees, treeOrder, handlers, req)
       IN  calls' = [calls EXCEPT ![w] = [op |-> "route", req |-> req,
                                          resp |-> out.resp, invoked |-> out.invoked]]
    /\ UNCHANGED <<config, result, err, failedAt, trees, treeOrder, handlers, registered>>

\* Worker w hands its response to the transport and is free again.
Return(w) ==
    /\ calls[w].op = "route"
    /\ calls' = [calls EXCEPT ![w] = NoCall]
    /\ UNCHANGED <<config, result, err, failedAt, trees, treeOrder, handlers, registered>>

\* ----------------------------------------------------------- specifications
\* One worker, every endpoint list of up to MaxEntries entries.
Init == InitOver(ConfigsOf(Endpoint, MaxEntries))
Next ==
    \/ \E name \in Controllers, handler \in HandlerIds : Register(name, handler)
    \/ \E req \in RequestsOf(ReqMethods, Paths) : Route("w1", req)
    \/ Return("w1")
Spec == Init /\ [][Next]_vars

\* Router::new on longer endpoint lists; a built router is probed with the
\* one-segment paths.
ProbePaths == SeqsUpTo(PathSegs, 1)
InitBuild == InitOver(ConfigsOf(Endpoint, MaxBuildEntries))
NextBuild ==
    \/ \E req \in RequestsOf({"GET"}, ProbePaths) : Route("w1", req)
    \/ Return("w1")
SpecBuild == InitBuild /\ [][NextBuild]_vars

\* The matcher on longer endpoint lists: one method, the handler that reports
\* its parameters.
GetEndpoint == {e \in Endpoint : e.method = "GET"}
InitMatch == InitOver(ConfigsOf(GetEndpoint, MaxBuildEntries))
NextMatch ==
    \/ \E name \in Controllers : Register(name, "h1")
    \/ \E req \in RequestsOf({"GET"}, Paths) : Route("w1", req)
    \/ Return("w1")
SpecMatch == InitMatch /\ [][NextMatch]_vars

\* Two workers share the router (Arc<Router>), on one-segment patterns and
\* paths.
ShortEndpoint == {e \in Endpoint : Len(e.path) = 1}
InitShared == InitOver(ConfigsOf(ShortEndpoint, MaxEntries))
NextShared ==
    \/ \E name \in Controllers, handler \in HandlerIds : Register(name, handler)
    \/ \E w \in Workers, req \in RequestsOf(ReqMethods, ProbePaths) : Route(w, req)
    \/ \E w \in Workers : Return(w)
SpecShared == InitShared /\ [][NextShared]_vars

\* ======================================================== the claims' terms
\* A path matches a pattern: segment for segment, a literal by equality and
\* a parameter by any non-empty segment.
Matches(pat, path) ==
    /\ Len(pat) = Len(path)
    /\ \A i \in DOMAIN pat :
          IF pat[i].kind = "lit" THEN pat[i].text = path[i] ELSE path[i] # ""

\* The configured endpoints of a method whose pattern matches the path.
MatchingEntries(method, path) ==
    {i \in DOMAIN config : config[i].method = method /\ Matches(config[i].path, path)}

\* The methods under which some configured pattern matches the path.
MethodsMatching(path) == {m \in Methods : MatchingEntries(m, path) # {}}

Routed(w) == calls[w].op = "route"

\* The entries of a comma-joined header value, and its being well formed.
Entries(value) == {value[i] : i \in {j \in DOMAIN value : j % 2 = 1}}
CommaJoined(value) ==
    /\ Len(value) % 2 = 1
    /\ \A i \in DOMAIN value : i % 2 = 0 => value[i] = ", "
    /\ Cardinality(Entries(value)) = (Len(value) + 1) \div 2

\* The response is the router's own 404: no body, no Allow header.
IsNotFound(resp) ==
    /\ resp.status = NOT_FOUND
    /\ resp.body = <<>>
    /\ ALLOW \notin DOMAIN resp.headers

\* The route the method's matcher resolves the call's path to.
Resolved(w) ==
    IF calls[w].req.method \in DOMAIN trees
    THEN At(trees[calls[w].req.method], calls[w].req.uri)
    ELSE NoMatch

\* ------------------------------------------------------------------- C1
\* C1: when the path matches under some method but not under the request's
\* method (which may have no matcher at all), route answers 405 with an empty
\* body and one Allow header whose comma-joined entries are exactly the
\* methods that match the path, each once and the request's method not among
\* them, and invokes no handler.
C1_MethodNotAllowed ==
    \A w \in Workers :
        (/\ Routed(w)
         /\ MethodsMatching(calls[w].req.uri) # {}
         /\ calls[w].req.method \notin MethodsMatching(calls[w].req.uri))
        => /\ calls[w].resp.status = METHOD_NOT_ALLOWED
           /\ calls[w].resp.body = <<>>
           /\ DOMAIN calls[w].resp.headers = {ALLOW}
           /\ Len(calls[w].resp.headers[ALLOW]) = 1
           /\ CommaJoined(calls[w].resp.headers[ALLOW][1])
           /\ Entries(calls[w].resp.headers[ALLOW][1]) = MethodsMatching(calls[w].req.uri)
           /\ calls[w].req.method \notin Entries(calls[w].resp.headers[ALLOW][1])
           /\ calls[w].invoked = <<>>

\* A DELETE of a path that GET and POST both know, answered 405.
C1_Witness ==
    /\ Routed("w1")
    /\ calls["w1"].req.method = "DELETE"
    /\ MethodsMatching(calls["w1"].req.uri) = {"GET", "POST"}
    /\ calls["w1"].resp.status = METHOD_NOT_ALLOWED

\* ------------------------------------------------------------------- C2
\* C2 as claimed: route answers 404 with an empty body and no Allow header
\* if and only if the path matches under no method.
C2_Original ==
    \A w \in Workers :
        Routed(w) =>
            (IsNotFound(calls[w].resp) <=> MethodsMatching(calls[w].req.uri) = {})

\* C2 amended: route answers 404 with an empty body and no Allow header
\* without invoking a handler if and only if the path matches under no method
\* (a handler that is dispatched to may answer 404 itself).
C2_NotFound ==
    \A w \in Workers :
        Routed(w) =>
            ((IsNotFound(calls[w].resp) /\ calls[w].invoked = <<>>)
                <=> MethodsMatching(calls[w].req.uri) = {})

\* A 404 for a path no method knows, asked of a method that has a matcher.
C2_Witness ==
    /\ Routed("w1")
    /\ calls["w1"].req.method \in DOMAIN trees
    /\ MethodsMatching(calls["w1"].req.uri) = {}
    /\ IsNotFound(calls["w1"].resp)
    /\ \E c \in Controllers : handlers[c] # None

\* ------------------------------------------------------------------- C3
\* C3: when the path matches a route of the request's own method whose
\* controller has no handler registered, route answers 501 with a body that
\* contains the controller name and invokes no handler, also when the path
\* matches under other methods too.
C3_HandlerMissing ==
    \A w \in Workers :
        (/\ Routed(w)
         /\ MatchingEntries(calls[w].req.method, calls[w].req.uri) # {}
         /\ Resolved(w).ok
         /\ handlers[Resolved(w).value] = None)
        => /\ calls[w].resp.status = NOT_IMPLEMENTED
           /\ \E i \in DOMAIN calls[w].resp.body :
                 calls[w].resp.body[i] = Resolved(w).value
           /\ calls[w].invoked = <<>>

\* A 501 for a path that another method matches as well, while the other
\* controller has a handler.
C3_Witness ==
    /\ Routed("w1")
    /\ calls["w1"].resp.status = NOT_IMPLEMENTED
    /\ MethodsMatching(calls["w1"].req.uri) = {"GET", "POST"}
    /\ \E c \in Controllers : handlers[c] # None

\* ------------------------------------------------------------------- C4
\* C4: a handler is invoked exactly when the path matches a route of the
\* request's method and that route's controller has a handler; then that
\* handler is invoked once, with the request's uri, method, headers and body,
\* and route returns its response with status, headers and body unchanged.
C4_Dispatched ==
    \A w \in Workers :
        Routed(w) =>
            /\ (calls[w].invoked # <<>>) <=>
                  (/\ MatchingEntries(calls[w].req.method, calls[w].req.uri) # {}
                   /\ Resolved(w).ok
                   /\ handlers[Resolved(w).value] # None)
            /\ calls[w].invoked # <<>> =>
                  /\ Len(calls[w].invoked) = 1
                  /\ calls[w].invoked[1].handler = handlers[Resolved(w).value]
                  /\ calls[w].invoked[1].req.uri = calls[w].req.uri
                  /\ calls[w].invoked[1].req.method = calls[w].req.method
                  /\ calls[w].invoked[1].req.headers = calls[w].req.headers
                  /\ calls[w].invoked[1].req.body = calls[w].req.body
                  /\ LET answer == Handle(calls[w].invoked[1].handler,
                                          calls[w].invoked[1].req)
                     IN  /\ calls[w].resp.status = answer.status
                         /\ calls[w].resp.headers = answer.headers
                         /\ calls[w].resp.body = answer.body

\* A POST with a body dispatched to the handler that answers with headers.
C4_Witness ==
    /\ Routed("w1")
    /\ calls["w1"].req.method = "POST"
    /\ Len(calls["w1"].invoked) = 1
    /\ calls["w1"].invoked[1].handler = "h2"
    /\ DOMAIN calls["w1"].resp.headers # {}

\* ------------------------------------------------------------------- C9
\* C9: the handler held for a controller name is the one of the latest
\* register call for that name (none before the first), whatever was
\* registered under other names; the route table stays the one Router::new
\* built; and a matched route is dispatched to that handler, or answered 501
\* while its controller has never been registered.
C9_LastRegistrationWins ==
    /\ result = "ok" =>
          /\ \A c \in Controllers : handlers[c] = registered[c]
          /\ trees = New(config).trees
    /\ \A w \in Workers :
          (Routed(w) /\ Resolved(w).ok) =>
              IF registered[Resolved(w).value] = None
              THEN calls[w].resp.status = NOT_IMPLEMENTED /\ calls[w].invoked = <<>>
              ELSE /\ Len(calls[w].invoked) = 1
                   /\ calls[w].invoked[1].handler = registered[Resolved(w).value]

\* Two controllers hold different handlers and a request is dispatched to one.
C9_Witness ==
    /\ Routed("w1")
    /\ handlers["list"] = "h1"
    /\ handlers["get"] = "h2"
    /\ Len(calls["w1"].invoked) = 1
    /\ Resolved("w1").value = "get"
    /\ calls["w1"].invoked[1].handler = "h2"

\* ------------------------------------------------------------------ C10
\* Two calls for the same method and path hold the same answer.
SameOutcome ==
    \A v, w \in Workers :
        (/\ Routed(v) /\ Routed(w)
         /\ calls[v].req.method = calls[w].req.method
         /\ calls[v].req.uri = calls[w].req.uri)
        => /\ calls[v].resp = calls[w].resp
           /\ calls[v].invoked = calls[w].invoked

\* A step that starts a route call.
RouteLeavesRouter ==
    (\E w \in Workers : calls'[w].op = "route" /\ calls[w].op = "idle")
        => UNCHANGED <<trees, treeOrder, handlers>>

HasParam(pat) == \E i \in DOMAIN pat : pat[i].kind = "param"
Names(pat) == {pat[i].text : i \in {j \in DOMAIN pat : pat[j].kind = "param"}}

\* The same literals at the literal positions and parameters at the same
\* positions, whatever the parameters are called.
StructEq(p, q) ==
    /\ Len(p) = Len(q)
    /\ \A i \in DOMAIN p : SameEdge(p[i], q[i])

\* Two patterns one matcher cannot hold together: structurally equal, or a
\* parameter under the same prefix with two names.
PairConflict(p, q) ==
    \/ StructEq(p, q)
    \/ \E k \in (DOMAIN p) \cap (DOMAIN q) :
          /\ \A j \in 1..(k - 1) : SameEdge(p[j], q[j])
          /\ p[k].kind = "param" /\ q[k].kind = "param"
          /\ p[k].text # q[k].text

\* Entry i cannot be inserted after the entries before it.
ConflictsEarlier(i) ==
    \E j \in 1..(i - 1) :
        /\ config[j].method = config[i].method
        /\ PairConflict(config[j].path, config[i].path)

NoRouter == DOMAIN trees = {} /\ \A w \in Workers : calls[w].op = "idle"

\* ------------------------------------------------------------------- C5
\* Call w reached entry i: its controller, its handler, its parameters.
ReachesWithParams(w, i) ==
    /\ Resolved(w).ok
    /\ Resolved(w).value = config[i].controller
    /\ Len(calls[w].invoked) = 1
    /\ calls[w].invoked[1].handler = handlers[config[i].controller]
    /\ DOMAIN calls[w].invoked[1].req.params = Names(config[i].path)
    /\ \A n \in Names(config[i].path) :
          \E k \in DOMAIN config[i].path :
              /\ config[i].path[k] = Param(n)
              /\ calls[w].invoked[1].req.params[n] = calls[w].req.uri[k]

LitParamPair(i, j, k) ==
    /\ config[i].method = config[j].method
    /\ Len(config[i].path) = Len(config[j].path)
    /\ k \in DOMAIN config[i].path
    /\ config[i].path[k].kind = "lit"
    /\ config[j].path[k].kind = "param"
    /\ \A l \in DOMAIN config[i].path : l # k => config[i].path[l] = config[j].path[l]

\* The path fits the pattern at every position but k.
AgreesElsewhere(pat, path, k) ==
    /\ Len(pat) = Len(path)
    /\ \A l \in DOMAIN pat :
          l # k => IF pat[l].kind = "lit" THEN pat[l].text = path[l] ELSE path[l] # ""

\* The call was resolved to entry i: its controller is named in the 501, or
\* its handler was invoked with the parameters of its pattern only.
ResolvedTo(w, i) ==
    /\ Resolved(w).ok
    /\ Resolved(w).value = config[i].controller
    /\ IF handlers[config[i].controller] = None
       THEN /\ calls[w].resp.status = NOT_IMPLEMENTED
            /\ \E n \in DOMAIN calls[w].resp.body :
                  calls[w].resp.body[n] = config[i].controller
       ELSE /\ Len(calls[w].invoked) = 1
            /\ DOMAIN calls[w].invoked[1].req.params = Names(config[i].path)

BuildsEitherOrder ==
    (Len(config) = 2 /\ \E k \in 1..MaxSegs : LitParamPair(1, 2, k) \/ LitParamPair(2, 1, k))
        => result = "ok"

\* C6 as claimed: a literal and a parameter pattern that differ at one
\* position build in either order; a request with the literal at that
\* position goes to the literal route, with any other segment there to the
\* parameter route.
C6_Original ==
    /\ BuildsEitherOrder
    /\ \A w \in Workers : \A i, j \in DOMAIN config : \A k \in 1..MaxSegs :
          (/\ result = "ok"
           /\ Routed(w)
           /\ LitParamPair(i, j, k)
           /\ config[i].method = calls[w].req.method
           /\ AgreesElsewhere(config[i].path, calls[w].req.uri, k))
          => IF calls[w].req.uri[k] = config[i].path[k].text
             THEN ResolvedTo(w, i)
             ELSE ResolvedTo(w, j)

\* C6 amended: the same, for any other non-empty segment at that position
\* and a request path that no third pattern registered under that method
\* matches.
C6_LiteralFirst ==
    /\ BuildsEitherOrder
    /\ \A w \in Workers : \A i, j \in DOMAIN config : \A k \in 1..MaxSegs :
          (/\ result = "ok"
           /\ Routed(w)
           /\ LitParamPair(i, j, k)
           /\ config[i].method = calls[w].req.method
           /\ AgreesElsewhere(config[i].path, calls[w].req.uri, k)
           /\ calls[w].req.uri[k] # ""
           /\ MatchingEntries(calls[w].req.method, calls[w].req.uri) \subseteq {i, j})
          => IF calls[w].req.uri[k] = config[i].path[k].text
             THEN ResolvedTo(w, i)
             ELSE ResolvedTo(w, j)

\* The parameter pattern was configured first, the literal one second, and a
\* request with the literal reached the literal route's handler unbound.
C6_Witness ==
    /\ Routed("w1")
    /\ Len(config) >= 2
    /\ LitParamPair(2, 1, 2)
    /\ config[1].controller # config[2].controller
    /\ calls["w1"].req.uri = <<"users", "users">>
    /\ Matches(config[2].path, calls["w1"].req.uri)
    /\ Len(calls["w1"].invoked) = 1
    /\ DOMAIN calls["w1"].invoked[1].req.params = {}
    /\ handlers[config[1].controller] = None

\* ------------------------------------------------------------------- C7
\* C7: two entries of one method with structurally equal patterns make
\* Router::new fail and return no router; and a build fails only for an entry
\* whose pattern conflicts with an earlier pattern of the same method, never
\* for a pattern repeated under another method or a controller used twice.
C7_Conflict ==
    /\ (\E i, j \in DOMAIN config :
           /\ i < j
           /\ config[i].method = config[j].method
           /\ StructEq(config[i].path, config[j].path))
       => (result = "err" /\ NoRouter)
    /\ result = "err" => (failedAt \in DOMAIN config /\ ConflictsEarlier(failedAt))
    /\ result = "ok" => failedAt = 0

\* The third entry repeats the first one's pattern with another parameter
\* name; the second has the same pattern and controller under another method.
C7_Witness ==
    /\ result = "err"
    /\ Len(config) = 3
    /\ failedAt = 3
    /\ config[1].method = config[3].method
    /\ config[2].method # config[1].method
    /\ config[2].path = config[1].path
    /\ config[2].controller = config[1].controller
    /\ StructEq(config[1].path, config[3].path)
    /\ config[1].path # config[3].path

=============================================================================
